---- MODULE Spec2Model ----
(***************************************************************************)
(* A model of pyssa's Simulation class (src/pyssa/simulation.py) and of    *)
(* the direct-method driver it calls (pyssa.direct_naive, whose source is  *)
(* not part of src/ and is modelled from spec.md, sections 4.2 to 4.5).    *)
(*                                                                         *)
(* Python's None is the empty sequence and a present value x is <<x>>.      *)
(* Python's 0-based positions are kept in the loop index; the TLA+         *)
(* sequences are 1-based, so position i of a list is element i + 1.        *)
(***************************************************************************)
EXTENDS Integers, Sequences, FiniteSets, TLC

VARIABLES
    pc,       \* "new" | "ctor_error" | "idle" | "loop" | "run"
    input,    \* the constructor's arguments (None before construction)
    sim,      \* the Simulation object's fields (None until constructed)
    results,  \* Simulation._results (None until a simulate call completes)
    loc,      \* the locals of the simulate call in progress
    drv,      \* the frame of the direct_naive call in progress
    rng,      \* the generator: seed -> the draws it yields, fixed once seen
    runs,     \* log of the completed direct_naive calls, in call order
    err,      \* what the last constructor or simulate call raised
    call,     \* the arguments of the latest simulate call (None before it)
    ncalls    \* number of simulate calls made so far

vars == <<pc, input, sim, results, loc, drv, rng, runs, err, call, ncalls>>

----------------------------------------------------------------------------
(* Bounds of the model *)

\* largest initial species count of the enumerated one-reaction networks
MaxCount == 3
\* initial count of species A in the linear chain (100 in the test fixture)
ChainN == 2
\* largest number of replicates asked of one simulate call
MaxRep == 2
\* simulate calls per behaviour
MaxCalls == 2
\* the uniform draw u2 ranges over i / UGrid, 0 < i < UGrid
UGrid == 3
\* the exponential variate -ln(u1) ranges over {1, MaxE} clock ticks
MaxE == 4
\* the longer of the time limits given to simulate, in clock ticks
MaxT == 5
\* the larger of the iteration limits given to simulate
MaxIter == 3

----------------------------------------------------------------------------
(* Helpers on sequences and matrices *)

None == <<>>

Some(x) == <<x>>

RECURSIVE SumSeq(_)
SumSeq(s) == IF Len(s) = 0 THEN 0 ELSE Head(s) + SumSeq(Tail(s))

RECURSIVE Pow(_, _)
Pow(b, n) == IF n <= 0 THEN 1 ELSE b * Pow(b, n - 1)

\* ndarray.shape of a 2D array
Shape(m) == <<Len(m), IF Len(m) = 0 THEN 0 ELSE Len(m[1])>>

\* np.any(a < 0) on a 1D array
AnyNeg1(a) == \E i \in 1..Len(a) : a[i] < 0

\* np.any(m < 0) on a 2D array
AnyNeg2(m) == \E r \in 1..Len(m) : AnyNeg1(m[r])

\* np.max on a 1D array of small integers
MaxOf(a) == CHOOSE v \in {a[i] : i \in 1..Len(a)} : \A i \in 1..Len(a) : a[i] <= v

----------------------------------------------------------------------------
(* Simulation.__init__ and Simulation._check_consistency *)

\* the fields __init__ sets from its arguments, before the check
InitFields(a) ==
    [react_stoic |-> a.react_stoic,
     prod_stoic  |-> a.prod_stoic,
     init_state  |-> a.init_state,
     k_det       |-> a.k_det,
     chem_flag   |-> a.chem_flag,
     nr          |-> Shape(a.react_stoic)[1],
     ns          |-> Shape(a.react_stoic)[2],
     volume      |-> a.volume,
     orders      |-> [r \in 1..Len(a.react_stoic) |-> SumSeq(a.react_stoic[r])]]

\* the checks in the order of the code: "ok", or the ValueError raised
CheckConsistency_NoInitStateCheck(s) ==
    IF (s.nr # Shape(s.prod_stoic)[1]) \/ (s.ns # Shape(s.prod_stoic)[2])
    THEN "react_stoic and prod_stoic should be the same shape."
    ELSE IF AnyNeg2(s.react_stoic)
    THEN "react_stoic cannot have negative elements."
    ELSE IF AnyNeg2(s.prod_stoic)
    THEN "V_p cannot have negative elements."
    ELSE IF AnyNeg1(s.k_det)
    THEN "Rate constant(s) can't be negative."
    ELSE IF Len(s.k_det) # s.nr
    THEN "Number of rate constants must equal number of reactions"
    ELSE IF s.chem_flag \notin BOOLEAN
    THEN "chem_flag must be a boolean True or False."
    ELSE IF MaxOf(s.orders) > 3
    THEN "Order greater than 3 not suppported."
    ELSE "ok"

CheckConsistency_NoOrderCheck(s) ==
    IF (s.nr # Shape(s.prod_stoic)[1]) \/ (s.ns # Shape(s.prod_stoic)[2])
    THEN "react_stoic and prod_stoic should be the same shape."
    ELSE IF AnyNeg2(s.react_stoic)
    THEN "react_stoic cannot have negative elements."
    ELSE IF AnyNeg2(s.prod_stoic)
    THEN "V_p cannot have negative elements."
    ELSE IF AnyNeg1(s.init_state)
    THEN "Initial numbers in X0 can't be negative."
    ELSE IF AnyNeg1(s.k_det)
    THEN "Rate constant(s) can't be negative."
    ELSE IF Len(s.k_det) # s.nr
    THEN "Number of rate constants must equal number of reactions"
    ELSE IF s.chem_flag \notin BOOLEAN
    THEN "chem_flag must be a boolean True or False."
    ELSE "ok"

CheckConsistency(s) ==
    IF (s.nr # Shape(s.prod_stoic)[1]) \/ (s.ns # Shape(s.prod_stoic)[2])
    THEN "react_stoic and prod_stoic should be the same shape."
    ELSE IF AnyNeg2(s.react_stoic)
    THEN "react_stoic cannot have negative elements."
    ELSE IF AnyNeg2(s.prod_stoic)
    THEN "V_p cannot have negative elements."
    ELSE IF AnyNeg1(s.init_state)
    THEN "Initial numbers in X0 can't be negative."
    ELSE IF AnyNeg1(s.k_det)
    THEN "Rate constant(s) can't be negative."
    ELSE IF Len(s.k_det) # s.nr
    THEN "Number of rate constants must equal number of reactions"
    ELSE IF s.chem_flag \notin BOOLEAN
    THEN "chem_flag must be a boolean True or False."
    ELSE IF MaxOf(s.orders) > 3
    THEN "Order greater than 3 not suppported."
    ELSE "ok"

\* Simulation(react_stoic, prod_stoic, init_state, k_det, chem_flag, volume)
Construct(inputs) ==
    /\ pc = "new"
    /\ \E a \in inputs :
         LET s == InitFields(a)
             c == CheckConsistency(s)
         IN  /\ input' = Some(a)
             /\ IF c = "ok"
                THEN /\ sim' = Some(s)
                     /\ pc' = "idle"
                     /\ err' = "none"
                ELSE /\ sim' = None
                     /\ pc' = "ctor_error"
                     /\ err' = "ValueError"
    /\ UNCHANGED <<results, loc, drv, rng, runs, call, ncalls>>

----------------------------------------------------------------------------
(* pyssa.direct_naive: the per-replicate driver (spec.md 4.2 to 4.5) *)

\* number of ways to pick c molecules out of n, for a coefficient c of 0..3
Comb(n, c) ==
    CASE c = 0 -> 1
      [] c = 1 -> n
      [] c = 2 -> (n * (n - 1)) \div 2
      [] OTHER -> (n * (n - 1) * (n - 2)) \div 6

RECURSIVE CombProduct(_, _, _)
CombProduct(x, coef, s) ==
    IF s = 0 THEN 1 ELSE Comb(x[s], coef[s]) * CombProduct(x, coef, s - 1)

\* Propensity of reaction r in state x.  Orders 0 to 3 of spec.md 4.2 are the
\* products of the per-species terms: k, k*n, k*n(n-1)/2, k*na*nb,
\* k*n(n-1)(n-2)/6 and the mixed third-order products.  The division by
\* volume^(order-1) is kept exact by carrying every propensity over the common
\* denominator volume^2: the value below is propensity * volume^2.
Propensity(a, x, r) ==
    LET order == SumSeq(a.react_stoic[r])
    IN  a.k_det[r] * CombProduct(x, a.react_stoic[r], Len(x))
          * Pow(a.volume, 3 - order)

Propensities(a, x) == [r \in 1..Len(a.react_stoic) |-> Propensity(a, x, r)]

RECURSIVE CumSum(_, _)
CumSum(prop, j) == IF j = 0 THEN 0 ELSE prop[j] + CumSum(prop, j - 1)

\* Reaction index for the draw u2 = u / UGrid: the smallest j whose cumulative
\* propensity exceeds u2 * a0 (strictly), the last index when there is none.
SelectReaction(prop, u) ==
    LET a0   == SumSeq(prop)
        hits == {j \in 1..Len(prop) : CumSum(prop, j) * UGrid > u * a0}
    IN  IF hits = {} THEN Len(prop)
        ELSE CHOOSE j \in hits : \A k \in hits : j <= k

\* Waiting time tau = -ln(u1) / a0 for the variate e = -ln(u1), on the clock's
\* grid (rounded down to a tick); a0 is propensity-sum * volume^2.
WaitingTime(e, a0, volume) == (e * volume * volume) \div a0

\* elementwise state + (prod_stoic[j] - react_stoic[j])
ApplyEvent(a, x, j) ==
    [s \in 1..Len(x) |-> x[s] + a.prod_stoic[j][s] - a.react_stoic[j][s]]

\* the draws one step consumes: e = -ln(u1) in clock ticks, u = u2 * UGrid
Draws == [e : {1, MaxE}, u : 1..(UGrid - 1)]

\* the same with u2 held at its largest grid value
FewDraws == [e : {1, MaxE}, u : {UGrid - 1}]

\* the frame at entry: Running, t = 0, a copy of the initial state, and the
\* buffer seeded with the initial sample
DriverInit(a) ==
    [args   |-> a,
     t      |-> 0,
     x      |-> a.init_state,
     ts     |-> <<0>>,
     xs     |-> <<a.init_state>>,
     status |-> "Running",
     ndraws |-> 0]

\* steps 3 to 5 of spec.md 4.4 for the draw dr
Advance(d, prop, dr) ==
    LET a   == d.args
        tau == WaitingTime(dr.e, SumSeq(prop), a.volume)
        j   == SelectReaction(prop, dr.u)
    IN  IF d.t + tau > a.max_t
        THEN [d EXCEPT !.status = "MaxTimeReached", !.t = a.max_t,
                       !.ndraws = @ + 1]
        ELSE LET x2 == ApplyEvent(a, d.x, j)
                 ts2 == Append(d.ts, d.t + tau)
             IN  [d EXCEPT !.t = d.t + tau, !.x = x2, !.ts = ts2,
                           !.xs = Append(d.xs, x2), !.ndraws = @ + 1,
                           !.status = IF Len(ts2) >= a.max_iter + 1
                                      THEN "MaxIterReached" ELSE "Running"]

\* steps 1 and 2 of spec.md 4.4 when no event can fire
NoEvent(d) ==
    [d EXCEPT !.status = IF SumSeq(d.x) = 0 THEN "AllExtinct"
                         ELSE "ZeroPropensityNotExtinct"]

\* one iteration of the driver's loop
DriverStep(draws) ==
    /\ pc = "run"
    /\ drv[1].status = "Running"
    /\ LET d    == drv[1]
           a    == d.args
           prop == Propensities(a, d.x)
           seen == d.ndraws < Len(rng[a.seed])
       IN  IF \E r \in 1..Len(a.react_stoic) : SumSeq(a.react_stoic[r]) > 3
           THEN /\ drv' = Some([d EXCEPT !.status = "InvalidOrder"])
                /\ rng' = rng
           ELSE IF SumSeq(prop) = 0
           THEN /\ drv' = Some(NoEvent(d))
                /\ rng' = rng
           ELSE \E dr \in (IF seen THEN {rng[a.seed][d.ndraws + 1]} ELSE draws) :
                  /\ drv' = Some(Advance(d, prop, dr))
                  /\ rng' = IF seen THEN rng
                            ELSE [rng EXCEPT ![a.seed] = Append(@, dr)]
    /\ UNCHANGED <<pc, input, sim, results, loc, runs, err, call, ncalls>>

----------------------------------------------------------------------------
(* Simulation.simulate *)

\* the default of simulate's volume parameter
DefaultVolume == 1

\* the seed handed to replicate number loc.index
SeedArg_Index(l) == l.index

SeedArg(l) == l.seed[l.index + 1]

\* the volume handed to every replicate: simulate's own parameter
VolumeArg(s, l) == l.volume

\* the positional arguments of the direct_naive call
DirectNaiveArgs_SwapLimits(s, l) ==
    [react_stoic |-> s.react_stoic,
     prod_stoic  |-> s.prod_stoic,
     init_state  |-> s.init_state,
     k_det       |-> s.k_det,
     max_t       |-> l.max_iter,
     max_iter    |-> l.max_t,
     volume      |-> VolumeArg(s, l),
     seed        |-> SeedArg(l),
     chem_flag   |-> s.chem_flag]

DirectNaiveArgs_SwapStoic(s, l) ==
    [react_stoic |-> s.prod_stoic,
     prod_stoic  |-> s.react_stoic,
     init_state  |-> s.init_state,
     k_det       |-> s.k_det,
     max_t       |-> l.max_t,
     max_iter    |-> l.max_iter,
     volume      |-> VolumeArg(s, l),
     seed        |-> SeedArg(l),
     chem_flag   |-> s.chem_flag]

DirectNaiveArgs(s, l) ==
    [react_stoic |-> s.react_stoic,
     prod_stoic  |-> s.prod_stoic,
     init_state  |-> s.init_state,
     k_det       |-> s.k_det,
     max_t       |-> l.max_t,
     max_iter    |-> l.max_iter,
     volume      |-> VolumeArg(s, l),
     seed        |-> SeedArg(l),
     chem_flag   |-> s.chem_flag]

\* Results(tlist, xlist, status_list, algorithm, seed)
Results(tlist, xlist, status_list, algorithm, seed) ==
    [t_list      |-> tlist,
     x_list      |-> xlist,
     status_list |-> status_list,
     algorithm   |-> algorithm,
     seed        |-> seed]

\* seed = [index for index in range(n_rep)]
DefaultSeeds(n_rep) == [i \in 1..n_rep |-> i - 1]

\* entry of simulate: the seed check and the choice of the algorithm
SimulateCall(calls, maxcalls) ==
    /\ pc = "idle"
    /\ ncalls < maxcalls
    /\ ncalls' = ncalls + 1
    /\ \E c \in calls :
         /\ call' = Some(c)
         /\ IF c.seed # None /\ c.n_rep # Len(c.seed[1])
            THEN /\ err' = "ValueError"
                 /\ UNCHANGED <<pc, loc>>
            ELSE IF c.algorithm = "direct_naive"
            THEN /\ loc' = Some([max_t        |-> c.max_t,
                                 max_iter     |-> c.max_iter,
                                 volume       |-> IF c.volume = None
                                                  THEN DefaultVolume
                                                  ELSE c.volume[1],
                                 seed         |-> IF c.seed # None THEN c.seed[1]
                                                  ELSE DefaultSeeds(c.n_rep),
                                 n_rep        |-> c.n_rep,
                                 algorithm    |-> c.algorithm,
                                 index        |-> 0,
                                 tlist        |-> <<>>,
                                 xlist        |-> <<>>,
                                 status_list  |-> <<>>])
                 /\ pc' = "loop"
                 /\ err' = "none"
            ELSE /\ err' = "ValueError"
                 /\ UNCHANGED <<pc, loc>>
    /\ UNCHANGED <<input, sim, results, drv, rng, runs>>

\* for index in range(n_rep): the call of direct_naive
ReplicateCall ==
    /\ pc = "loop"
    /\ loc[1].index < loc[1].n_rep
    /\ drv' = Some(DriverInit(DirectNaiveArgs(sim[1], loc[1])))
    /\ pc' = "run"
    /\ UNCHANGED <<input, sim, results, loc, rng, runs, err, call, ncalls>>

\* t, X, status = direct_naive(...) returns; the three appends
ReplicateReturn ==
    /\ pc = "run"
    /\ drv[1].status # "Running"
    /\ LET d == drv[1]
           l == loc[1]
       IN  /\ loc' = Some([l EXCEPT !.tlist = Append(@, d.ts),
                                    !.xlist = Append(@, d.xs),
                                    !.status_list = Append(@, d.status),
                                    !.index = @ + 1])
           /\ runs' = Append(runs, [call     |-> ncalls,
                                    index    |-> l.index,
                                    asked    |-> [seed     |-> l.seed[l.index + 1],
                                                  max_t    |-> l.max_t,
                                                  max_iter |-> l.max_iter,
                                                  volume   |-> call[1].volume],
                                    args     |-> d.args,
                                    t        |-> d.ts,
                                    X        |-> d.xs,
                                    status   |-> d.status,
                                    final_t  |-> d.t,
                                    final_x  |-> d.x])
    /\ drv' = None
    /\ pc' = "loop"
    /\ UNCHANGED <<input, sim, results, rng, err, call, ncalls>>

\* after the loop: self._results = Results(...)
SimulateReturn ==
    /\ pc = "loop"
    /\ loc[1].index >= loc[1].n_rep
    /\ LET l == loc[1]
       IN  results' = Some(Results(l.tlist, l.xlist, l.status_list,
                                   l.algorithm, l.seed))
    /\ loc' = None
    /\ pc' = "idle"
    /\ UNCHANGED <<input, sim, drv, rng, runs, err, call, ncalls>>

----------------------------------------------------------------------------
(* Inputs *)

Net(rs, ps, x0, k, vol) ==
    [react_stoic |-> rs, prod_stoic |-> ps, init_state |-> x0, k_det |-> k,
     chem_flag |-> FALSE, volume |-> vol]

\* every network of one reaction over two species with small entries,
\* the rejected ones (negative entries, order above 3) included
OneReactionInputs ==
    { Net(<<r>>, <<p>>, x0, <<k>>, 1) :
        r \in {<<a, b>> : a \in -1..3, b \in 0..3},
        p \in {<<0, 0>>, <<0, 1>>, <<2, 0>>, <<-1, 0>>},
        x0 \in {<<a, b>> : a \in -1..MaxCount, b \in 0..1},
        k \in {-1, 0, 1} }

\* the linear chain A -> B -> C of tests/conftest.py (setup_basic)
Chain(n, vol) ==
    Net(<<<<1, 0, 0>>, <<0, 1, 0>>>>, <<<<0, 1, 0>>, <<0, 0, 1>>>>,
        <<n, 0, 0>>, <<1, 1>>, vol)

\* inputs whose shapes disagree
ShapeInputs ==
    { Net(<<<<1, 0, 0>>, <<0, 1, 0>>>>, <<<<0, 1>>, <<0, 0>>, <<1, 0>>>>,
          <<1, 0, 0>>, <<1, 1>>, 1),
      Net(<<<<1, 0, 0>>, <<0, 1, 0>>>>, <<<<0, 1, 0>>, <<0, 0, 1>>>>,
          <<1, 0, 0>>, <<1>>, 1),
      Net(<<<<1, 0, 0>>, <<0, 1, 0>>>>, <<<<0, 1, 0>>, <<0, 0, 1>>>>,
          <<1, 0, 0>>, <<1, 1, 1>>, 1),
      Net(<<<<1, 0, 0>>, <<0, 1, 0>>>>, <<<<0, 1, 0>>>>,
          <<1, 0, 0>>, <<1, 1>>, 1),
      Net(<<<<1, 0, 0>>, <<0, 1, 0>>>>, <<<<0, 1>>, <<0, 0>>>>,
          <<1, 0, 0>>, <<1, 1>>, 1) }

Call(max_t, max_iter, volume, seed, n_rep, algorithm) ==
    [max_t |-> max_t, max_iter |-> max_iter, volume |-> volume, seed |-> seed,
     n_rep |-> n_rep, algorithm |-> algorithm]

\* the seeds a call may name: the defaults 0..n_rep-1 and a few above them
Seeds == 0..(MaxRep + 3)

\* single-replicate calls: a short time limit with the larger iteration
\* budget, and the long time limit with a smaller budget
DriverCalls ==
    { Call(MaxT - 3, MaxIter, None, None, 1, "direct_naive"),
      Call(MaxT, MaxIter - 1, None, None, 1, "direct_naive") }

\* the chain's call: an iteration budget above the 2 * ChainN events the chain
\* can fire (1000 against 200 in the fixture)
ChainCalls == { Call(MaxT, 2 * ChainN + 2, None, None, 1, "direct_naive") }

\* the reactor volume of tests/conftest.py (setup_system)
TestVolume == 7

\* the rate constant of tests/conftest.py (setup_system)
TestRate == 3

\* a first-order and a second-order reaction competing for A: the volume
\* changes which of the two a draw selects
MixedOrder(vol) ==
    Net(<<<<1, 0>>, <<2, 0>>>>, <<<<0, 1>>, <<0, 1>>>>, <<3, 0>>,
        <<1, TestRate>>, vol)

\* the networks of the single-replicate specification
DriverInputs ==
    OneReactionInputs \cup ShapeInputs
      \cup {Chain(ChainN, DefaultVolume), MixedOrder(DefaultVolume),
            MixedOrder(TestVolume)}

\* networks built with the default volume and with the fixture's
WrapperInputs ==
    { Chain(1, v) : v \in {DefaultVolume, TestVolume} }
      \cup { MixedOrder(v) : v \in {DefaultVolume, TestVolume} }
      \cup ShapeInputs

\* simulate calls: seed absent with no and with MaxRep replicates; a seed list that
\* repeats 5, one that is not in index order and one that is too short; a call
\* that passes its own volume; a call that asks for another algorithm
WrapperCalls ==
    { Call(MaxT, MaxIter - 1, None, None, n, "direct_naive") : n \in {0, MaxRep} }
      \cup { Call(MaxT, MaxIter - 1, None, Some(q), MaxRep, "direct_naive") :
               q \in {[i \in 1..MaxRep |-> 5],
                      [i \in 1..MaxRep |-> IF i = 1 THEN 5 ELSE 0],
                      [i \in 1..(MaxRep - 1) |-> 5]} }
      \cup { Call(MaxT, MaxIter - 1, Some(TestVolume), None, 1, "direct_naive"),
             Call(MaxT, MaxIter - 1, None, None, 1, "tau_leaping") }

----------------------------------------------------------------------------
(* Specifications *)

Init ==
    /\ pc = "new"
    /\ input = None
    /\ sim = None
    /\ results = None
    /\ loc = None
    /\ drv = None
    /\ rng = [s \in Seeds |-> <<>>]
    /\ runs = <<>>
    /\ err = "none"
    /\ call = None
    /\ ncalls = 0

\* one replicate per behaviour, over every enumerated network
NextDriver ==
    \/ Construct(DriverInputs)
    \/ SimulateCall(DriverCalls, 1)
    \/ ReplicateCall
    \/ DriverStep(Draws)
    \/ ReplicateReturn
    \/ SimulateReturn

SpecDriver == Init /\ [][NextDriver]_vars

\* the linear chain run to its end
NextChain ==
    \/ Construct({Chain(ChainN, 1)})
    \/ SimulateCall(ChainCalls, 1)
    \/ ReplicateCall
    \/ DriverStep(Draws)
    \/ ReplicateReturn
    \/ SimulateReturn

SpecChain == Init /\ [][NextChain]_vars

\* the Simulation object over several simulate calls
Next ==
    \/ Construct(WrapperInputs)
    \/ SimulateCall(WrapperCalls, MaxCalls)
    \/ ReplicateCall
    \/ DriverStep(FewDraws)
    \/ ReplicateReturn
    \/ SimulateReturn

Spec == Init /\ [][Next]_vars

----------------------------------------------------------------------------
(* Properties *)

Last(q) == q[Len(q)]

AllNonNegative(xs) ==
    \A i \in 1..Len(xs) : \A sp \in 1..Len(xs[i]) : xs[i][sp] >= 0

\* every trajectory in sight: the running frame's buffer, the lists being
\* collected and the stored results
Trajectories ==
    (IF drv # None THEN {[t |-> drv[1].ts, X |-> drv[1].xs]} ELSE {})
      \cup (IF loc # None
            THEN {[t |-> loc[1].tlist[i], X |-> loc[1].xlist[i]] :
                    i \in 1..Len(loc[1].tlist)}
            ELSE {})
      \cup (IF results # None
            THEN {[t |-> results[1].t_list[i], X |-> results[1].x_list[i]] :
                    i \in 1..Len(results[1].t_list)}
            ELSE {})

\* the driver has just appended a sample
EventApplied ==
    /\ pc = "run"
    /\ drv # None
    /\ drv' # None
    /\ Len(drv'[1].xs) = Len(drv[1].xs) + 1

C1_SamplesNonNegative ==
    /\ \A tr \in Trajectories : AllNonNegative(tr.X)
    /\ drv # None => AllNonNegative(<<drv[1].x>>)

C1_EventsEnabled ==
    EventApplied =>
      \E j \in 1..Len(input[1].react_stoic) :
        /\ \A sp \in 1..Len(drv[1].x) :
             drv[1].x[sp] >= input[1].react_stoic[j][sp]
        /\ drv'[1].x = ApplyEvent(input[1], drv[1].x, j)

\* C1: every species count of every recorded sample is >= 0, and an event is
\* applied only for a reaction whose reactant coefficients the current state
\* holds, whatever the draws.
C1_NonNegative == []C1_SamplesNonNegative /\ [][C1_EventsEnabled]_vars

\* a third-order reaction has fired and used up a species
C1_Witness ==
    /\ drv # None
    /\ Len(drv[1].xs) >= 2
    /\ SumSeq(input[1].react_stoic[1]) = 3
    /\ \E sp \in 1..Len(drv[1].x) :
         input[1].react_stoic[1][sp] > 0 /\ drv[1].x[sp] = 0

NonDecreasing(ts) == \A i \in 1..(Len(ts) - 1) : ts[i] <= ts[i + 1]

\* C3: every trajectory of a run starts with (0, initState), its times never
\* decrease, and every recorded time and the reported final time are <= maxT.
C3_TimesOrdered ==
    /\ \A tr \in Trajectories :
         /\ tr.t[1] = 0
         /\ tr.X[1] = input[1].init_state
         /\ NonDecreasing(tr.t)
         /\ \A i \in 1..Len(tr.t) : tr.t[i] <= call[1].max_t
    /\ drv # None => drv[1].t <= call[1].max_t
    /\ \A i \in 1..Len(runs) : runs[i].final_t <= runs[i].asked.max_t

\* a finished run that recorded two events at the same instant and then
\* stopped at the time limit
C3_Witness ==
    \E i \in 1..Len(runs) :
      /\ runs[i].status = "MaxTimeReached"
      /\ Len(runs[i].t) >= 3
      /\ \E n \in 2..(Len(runs[i].t) - 1) : runs[i].t[n] = runs[i].t[n + 1]
      /\ runs[i].final_t = runs[i].asked.max_t
      /\ Last(runs[i].t) < runs[i].final_t

BadInput(a) ==
    \/ Shape(a.react_stoic) # Shape(a.prod_stoic)
    \/ AnyNeg2(a.react_stoic)
    \/ AnyNeg2(a.prod_stoic)
    \/ AnyNeg1(a.k_det)
    \/ Len(a.k_det) # Len(a.react_stoic)
    \/ AnyNeg1(a.init_state)
    \/ \E r \in 1..Len(a.react_stoic) : SumSeq(a.react_stoic[r]) > 3

\* C5: construction raises ValueError, and no replicate ever runs, when the
\* shapes differ, an entry of either matrix, a rate constant or an initial
\* count is negative, the number of rate constants is not the number of
\* reactions, or a reaction's order exceeds 3.
C5_ConstructorRejects ==
    (input # None /\ BadInput(input[1])) =>
      /\ pc = "ctor_error"
      /\ err = "ValueError"
      /\ sim = None
      /\ drv = None
      /\ runs = <<>>
      /\ results = None

\* the (2,3) reactant matrix with the (3,2) product matrix was refused
C5_Witness ==
    /\ pc = "ctor_error"
    /\ Shape(input[1].react_stoic) = <<2, 3>>
    /\ Shape(input[1].prod_stoic) = <<3, 2>>

\* the propensities of the network as the caller gave it, in state x
TruePropensities(a, x) ==
    [r \in 1..Len(input[1].react_stoic) |->
       input[1].k_det[r]
         * CombProduct(x, input[1].react_stoic[r], Len(x))
         * Pow(a.volume, 3 - SumSeq(input[1].react_stoic[r]))]

C8_ZeroStep ==
    (pc = "run" /\ drv[1].status = "Running" /\ drv' # drv
       /\ SumSeq(TruePropensities(drv[1].args, drv[1].x)) = 0) =>
      /\ drv'[1].status = IF SumSeq(drv[1].x) = 0 THEN "AllExtinct"
                          ELSE "ZeroPropensityNotExtinct"
      /\ drv'[1].x = drv[1].x
      /\ drv'[1].ts = drv[1].ts
      /\ drv'[1].xs = drv[1].xs

C8_Returned ==
    /\ \A i \in 1..Len(runs) :
         runs[i].status \in {"AllExtinct", "ZeroPropensityNotExtinct"} =>
           /\ Last(runs[i].X) = runs[i].final_x
           /\ SumSeq(TruePropensities(runs[i].args, runs[i].final_x)) = 0
           /\ runs[i].status = "AllExtinct" <=> SumSeq(runs[i].final_x) = 0
           /\ runs[i].X[1] = input[1].init_state
    /\ \A i \in 1..Len(runs) :
         ( /\ \A r \in 1..Len(input[1].k_det) : input[1].k_det[r] = 0
           /\ SumSeq(input[1].init_state) > 0 ) =>
           /\ runs[i].status = "ZeroPropensityNotExtinct"
           /\ runs[i].t = <<0>>
           /\ runs[i].X = <<input[1].init_state>>
    /\ (results # None /\ pc = "idle") =>
         \A i \in 1..Len(runs) :
           /\ results[1].status_list[i] = runs[i].status
           /\ results[1].t_list[i] = runs[i].t
           /\ results[1].x_list[i] = runs[i].X

\* C8: when the propensities sum to 0 the run ends at that step with no event
\* applied, as AllExtinct if every count is 0 and as ZeroPropensityNotExtinct
\* otherwise, and the trajectory so far is returned; a network whose rate
\* constants are 0 ends at its first step with only the initial sample.
C8_ZeroPropensity == []C8_Returned /\ [][C8_ZeroStep]_vars

\* a run that fired at least one event before its propensities vanished with
\* molecules left, and whose partial trajectory is in the results
C8_Witness ==
    /\ results # None
    /\ Len(results[1].status_list) = 1
    /\ results[1].status_list[1] = "ZeroPropensityNotExtinct"
    /\ Len(results[1].t_list[1]) >= 2

\* the waiting time of the step the driver is taking, from the draw it consumes
StepTau ==
    WaitingTime(rng'[drv[1].args.seed][drv[1].ndraws + 1].e,
                SumSeq(Propensities(drv[1].args, drv[1].x)),
                drv[1].args.volume)

C10_Crossing ==
    (pc = "run" /\ drv[1].status = "Running" /\ drv' # drv) =>
      IF SumSeq(Propensities(drv[1].args, drv[1].x)) = 0
      THEN drv'[1].status # "MaxTimeReached"
      ELSE /\ (drv[1].t + StepTau > call[1].max_t)
                <=> drv'[1].status = "MaxTimeReached"
           /\ drv'[1].status = "MaxTimeReached" =>
                /\ drv'[1].x = drv[1].x
                /\ drv'[1].ts = drv[1].ts
                /\ drv'[1].xs = drv[1].xs
                /\ drv'[1].x = Last(drv[1].xs)
                /\ drv'[1].t = call[1].max_t

C10_TerminalFrozen ==
    (drv # None /\ drv[1].status # "Running") =>
      /\ drv' # None => drv' = drv
      /\ drv' = None =>
           /\ Last(loc'[1].status_list) = drv[1].status
           /\ Last(loc'[1].tlist) = drv[1].ts
           /\ Last(loc'[1].xlist) = drv[1].xs

\* C10: an event that would cross maxT is not applied: the run ends as
\* MaxTimeReached with the state and the buffer as they were and the final
\* time maxT; after any terminal status nothing more is applied and the status
\* stays as it is.
C10_MaxTimeFrame == [][C10_Crossing]_vars /\ [][C10_TerminalFrozen]_vars

\* a run stopped by the time limit after at least one event
C10_Witness ==
    /\ drv # None
    /\ drv[1].status = "MaxTimeReached"
    /\ Len(drv[1].ts) >= 2
    /\ drv[1].t > Last(drv[1].ts)

\* C2 as stated: the chain never ends as ZeroPropensityNotExtinct; its
\* status is always AllExtinct, MaxTimeReached or MaxIterReached.
C2_NeverZeroPropensity ==
    \A i \in 1..Len(runs) :
      runs[i].status \in {"AllExtinct", "MaxTimeReached", "MaxIterReached"}

\* C2 as amended: the chain ends as MaxTimeReached, MaxIterReached or
\* ZeroPropensityNotExtinct, the last only once all mass has reached species C
\* (where both propensities vanish while sum(state) is still the initial
\* count); it never ends as AllExtinct.
C2_ChainStatus ==
    \A i \in 1..Len(runs) :
      /\ runs[i].status \in {"ZeroPropensityNotExtinct", "MaxTimeReached",
                             "MaxIterReached"}
      /\ runs[i].status = "ZeroPropensityNotExtinct" =>
           runs[i].final_x = <<0, 0, input[1].init_state[1]>>

\* the chain ran until every molecule was a C
C2_Witness ==
    \E i \in 1..Len(runs) :
      /\ runs[i].status = "ZeroPropensityNotExtinct"
      /\ runs[i].final_x = <<0, 0, ChainN>>
      /\ Len(runs[i].t) = 2 * ChainN + 1

\* the logged replicates of simulate call number c, in the order they ran
RunsOf(c) == SelectSeq(runs, LAMBDA r : r.call = c)

\* the latest call gave a seed list whose length is not n_rep
SeedMismatch(c) == c.seed # None /\ Len(c.seed[1]) # c.n_rep

C6_Stored ==
    (pc = "idle" /\ ncalls > 0 /\ err = "none") =>
      LET c     == call[1]
          seeds == IF c.seed = None THEN [i \in 1..c.n_rep |-> i - 1]
                   ELSE c.seed[1]
          rs    == RunsOf(ncalls)
          res   == results[1]
      IN  /\ Len(rs) = c.n_rep
          /\ Len(res.t_list) = c.n_rep
          /\ Len(res.x_list) = c.n_rep
          /\ Len(res.status_list) = c.n_rep
          /\ res.seed = seeds
          /\ \A i \in 1..c.n_rep :
               /\ rs[i].index = i - 1
               /\ rs[i].args.seed = seeds[i]
               /\ res.t_list[i] = rs[i].t
               /\ res.x_list[i] = rs[i].X
               /\ res.status_list[i] = rs[i].status

C6_Refused ==
    (ncalls' = ncalls + 1 /\ SeedMismatch(call'[1])) =>
      /\ err' = "ValueError"
      /\ pc' = "idle"
      /\ drv' = None
      /\ runs' = runs
      /\ results' = results

\* C6: without a seed list the seeds are 0..n_rep-1; a seed list whose length
\* is not n_rep raises before any replicate runs and leaves the stored results
\* as they were; otherwise exactly n_rep replicates run, replicate i with
\* seed[i], and its times, states and status are stored at position i.
C6_SeedsAndOrder == []C6_Stored /\ [][C6_Refused]_vars

\* a call with a seed list out of index order completed, and the next call's
\* short seed list was refused with the results still in place
C6_Witness ==
    /\ ncalls = 2
    /\ pc = "idle"
    /\ err = "ValueError"
    /\ SeedMismatch(call[1])
    /\ results # None
    /\ Len(results[1].t_list) = MaxRep
    /\ results[1].seed[1] = 5
    /\ results[1].seed[2] = 0
    /\ Len(results[1].t_list[1]) >= 2

\* C7: replicates asked with the same seed, time limit, iteration budget and
\* volume have identical trajectories and statuses, in one batch or across
\* calls; every replicate starts from the caller's initial state, and the
\* object's network and initial state stay as constructed.
C7_Deterministic ==
    /\ \A i \in 1..Len(runs) : \A j \in 1..Len(runs) :
         runs[i].asked = runs[j].asked =>
           /\ runs[i].t = runs[j].t
           /\ runs[i].X = runs[j].X
           /\ runs[i].status = runs[j].status
    /\ \A i \in 1..Len(runs) : runs[i].X[1] = input[1].init_state
    /\ sim # None => sim[1] = InitFields(input[1])

\* two replicates of one batch with seed 5 and a replicate of another call
\* with the same seed, all with the same trajectory of at least one event
C7_Witness ==
    \E i \in 1..Len(runs) : \E j \in 1..Len(runs) : \E k \in 1..Len(runs) :
      /\ i # j
      /\ runs[i].call = runs[j].call
      /\ runs[k].call # runs[i].call
      /\ runs[i].asked.seed = 5
      /\ runs[j].asked = runs[i].asked
      /\ runs[k].asked = runs[i].asked
      /\ Len(runs[i].t) >= 2

\* C9: a replicate of a simulate call that passes no volume runs with the
\* volume given to the constructor.
C9_ConstructorVolumeUsed ==
    \A i \in 1..Len(runs) :
      runs[i].asked.volume = None => runs[i].args.volume = sim[1].volume

====
